---------------------------- MODULE Spec2Model ----------------------------
(***************************************************************************)
(* Model of the DeepHAR replication's action-recognition head              *)
(* (action_recognition.py) and of its shared primitives                    *)
(* (general_models.py).                                                    *)
(*                                                                         *)
(* A tensor is a record [kind, shape, val].  kind = "raise" stands for a   *)
(* call that raised.  shape is the sequence of its sizes.  val is          *)
(*   - for the arithmetic primitives (kronecker_prod, the poolings,        *)
(*     SoftArgMax): a function from index tuples (0-based) to numbers;     *)
(*   - for the learned layers (Conv2d, BatchNorm2d, Linear, ...), whose    *)
(*     weights are free parameters: a term <<layer, owner, argument>>,     *)
(*     i.e. the layer is an uninterpreted function of its argument.  The   *)
(*     term of a value returned by an ActionBlock names the block's        *)
(*     argument once, <<"where", owner, argument, term over "arg">>.       *)
(* The shape rules of the library operators are those of torch.            *)
(***************************************************************************)
EXTENDS Integers, Sequences, FiniteSets, TLC

VARIABLES
    pc,          \* position of the running call: "call", the loop, "done", "raised"
    fn,          \* the entry point that was called
    args,        \* the module's constructor arguments and the call's inputs
    ret,         \* the value returned by the entry point
    k,           \* ActionCombined.forward: loop index
    out,         \* ActionCombined.forward: local out
    prev_out,    \* ActionCombined.forward: local prev_out
    all_actions, \* ActionCombined.forward: local all_actions (sequence of rows)
    calls,       \* ActionCombined.forward: the block calls made so far
    frame        \* ActionRecognition.forward: its locals while a branch runs

vars == <<pc, fn, args, ret, k, out, prev_out, all_actions, calls, frame>>

-----------------------------------------------------------------------------
(* Bounds of the model.                                                    *)

MaxDim == 2
MaxSeed == 2
MaxHW == 4
MaxFrames == 4
MaxJoints == 4
MaxSide == 3
MaxKernel == 2
MaxStride == 2
MaxPad == 1
MaxBatch == 2
MaxPoolBatch == 1
MaxChan == 2
MaxActions == 2
MaxK == 3

-----------------------------------------------------------------------------
(* Small helpers.                                                          *)

Max2(a, b) ==
    IF a >= b THEN a ELSE b

SetMax(S) ==
    CHOOSE m \in S : \A e \in S : e <= m

SetMin(S) ==
    CHOOSE m \in S : \A e \in S : m <= e

RECURSIVE Prod(_)
Prod(s) ==
    IF s = <<>> THEN 1 ELSE Head(s) * Prod(Tail(s))

RECURSIVE Ones(_)
Ones(n) ==
    IF n <= 0 THEN <<>> ELSE <<1>> \o Ones(n - 1)

-----------------------------------------------------------------------------
(* Shapes.  RAISE is the outcome of an operator that rejects its input.    *)

RAISE == <<-1>>

Rank(s) ==
    Len(s)

\* torch.Tensor.unsqueeze(dim): a negative dim counts from the end of the
\* result, dim + rank + 1.
UnsqueezeAt(s, dim) ==
    IF dim < 0 THEN dim + Rank(s) + 1 ELSE dim

UnsqueezeShape(s, dim) ==
    LET d == UnsqueezeAt(s, dim)
    IN  IF d < 0 \/ d > Rank(s) THEN RAISE
        ELSE SubSeq(s, 1, d) \o <<1>> \o SubSeq(s, d + 1, Rank(s))

\* torch.Tensor.tile(reps): the shorter of shape and reps is padded with
\* leading ones.
PadTo(s, n) ==
    Ones(n - Len(s)) \o s

TileShape(s, reps) ==
    LET n == Max2(Len(s), Len(reps))
        ps == PadTo(s, n)
        pr == PadTo(reps, n)
    IN  [i \in 1..n |-> ps[i] * pr[i]]

\* Broadcasting of two shapes for an elementwise operator.
BroadcastShape(a, b) ==
    LET n == Max2(Len(a), Len(b))
        pa == PadTo(a, n)
        pb == PadTo(b, n)
    IN  IF \A i \in 1..n : pa[i] = pb[i] \/ pa[i] = 1 \/ pb[i] = 1
        THEN [i \in 1..n |-> Max2(pa[i], pb[i])]
        ELSE RAISE

\* torch.sum(x, dim=(-2, -1))
SumLast2Shape(s) ==
    IF Rank(s) < 2 THEN RAISE ELSE SubSeq(s, 1, Rank(s) - 2)

\* torch.sum / torch.amax over dim=(2, 3)
Reduce23Shape(s) ==
    IF Rank(s) < 4 THEN RAISE ELSE SubSeq(s, 1, 2) \o SubSeq(s, 5, Rank(s))

\* nn.Conv2d with stride 1 whose output keeps the spatial size (padding
\* 'same', or a 1 x 1 kernel): batched (4-D) or unbatched (3-D) input whose
\* channel axis has n_in entries.
Conv2dShape(s, n_in, n_out) ==
    IF Rank(s) = 4 /\ s[2] = n_in THEN <<s[1], n_out, s[3], s[4]>>
    ELSE IF Rank(s) = 3 /\ s[1] = n_in THEN <<n_out, s[2], s[3]>>
    ELSE RAISE

\* nn.BatchNorm2d: 4-D input with n channels; in training mode more than one
\* value per channel is required.
BatchNorm2dShape(s, n, training) ==
    IF Rank(s) = 4 /\ s[2] = n /\ ~(training /\ s[1] * s[3] * s[4] = 1)
    THEN s
    ELSE RAISE

\* nn.MaxPool2d(kernel_size, stride, padding), ceil_mode False, dilation 1.
PoolOut(n, ks, stride, padding) ==
    ((n + 2 * padding - ks) \div stride) + 1

MaxPool2dShape(s, ks, stride, padding) ==
    IF Rank(s) \notin {3, 4} \/ padding > ks \div 2 THEN RAISE
    ELSE LET r == Rank(s)
             h == s[r - 1]
             w == s[r]
         IN  IF h + 2 * padding < ks \/ w + 2 * padding < ks THEN RAISE
             ELSE SubSeq(s, 1, r - 2)
                  \o <<PoolOut(h, ks, stride, padding), PoolOut(w, ks, stride, padding)>>

\* nn.Upsample(scale_factor, mode='nearest'): every spatial axis is scaled.
UpsampleShape(s, scale) ==
    IF Rank(s) \notin {3, 4, 5} THEN RAISE
    ELSE [i \in 1..Rank(s) |-> IF i <= 2 THEN s[i] ELSE s[i] * scale]

\* torch.cat(tensors, dim=d) (d 0-based) of two tensors.
CatShape(a, b, d) ==
    IF Rank(a) # Rank(b) \/ d + 1 > Rank(a) THEN RAISE
    ELSE IF \E i \in 1..Rank(a) : i # d + 1 /\ a[i] # b[i] THEN RAISE
    ELSE [i \in 1..Rank(a) |-> IF i = d + 1 THEN a[i] + b[i] ELSE a[i]]

\* nn.Linear(n_in, n_out)
LinearShape(s, n_in, n_out) ==
    IF Rank(s) >= 1 /\ s[Rank(s)] = n_in
    THEN SubSeq(s, 1, Rank(s) - 1) \o <<n_out>>
    ELSE RAISE

\* nn.Softmax() built without dim: the axis torch picks for the input's rank.
SoftmaxDim(rank) ==
    IF rank \in {0, 1, 3} THEN 0 ELSE 1

\* Assignment target[k] = value: leading axes of size 1 of the value are
\* dropped, what is left must expand to the target row's shape.
RECURSIVE StripLeadingOnes(_, _)
StripLeadingOnes(s, n) ==
    IF Len(s) > n /\ Head(s) = 1 THEN StripLeadingOnes(Tail(s), n) ELSE s

AssignableTo(value, target) ==
    LET v == StripLeadingOnes(value, Len(target))
    IN  /\ Len(v) <= Len(target)
        /\ LET pv == PadTo(v, Len(target))
           IN  \A i \in 1..Len(target) : pv[i] = target[i] \/ pv[i] = 1

-----------------------------------------------------------------------------
(* Numbers.  The entries of a data tensor are exact rationals <<n, d>> in  *)
(* lowest terms with d > 0; <<0, 0>> is nan and <<1, 0>>, <<-1, 0>> are    *)
(* the infinities a division by zero produces.                             *)

RECURSIVE GCD(_, _)
GCD(a, b) ==
    IF b = 0 THEN a ELSE GCD(b, a % b)

Abs(n) ==
    IF n < 0 THEN -n ELSE n

Sign(n) ==
    IF n < 0 THEN -1 ELSE IF n = 0 THEN 0 ELSE 1

NaN == <<0, 0>>

Rat(n, d) ==
    LET g == GCD(Abs(n), Abs(d))
    IN  IF d = 0 THEN <<Sign(n), 0>>
        ELSE <<(Sign(d) * n) \div g, Abs(d) \div g>>

RInt(n) ==
    <<n, 1>>

IsFinite(a) ==
    a[2] # 0

RNeg(a) ==
    <<-a[1], a[2]>>

RAdd(a, b) ==
    IF a = NaN \/ b = NaN THEN NaN
    ELSE IF ~IsFinite(a) /\ ~IsFinite(b) THEN (IF a = b THEN a ELSE NaN)
    ELSE IF ~IsFinite(a) THEN a
    ELSE IF ~IsFinite(b) THEN b
    ELSE Rat(a[1] * b[2] + b[1] * a[2], a[2] * b[2])

RSub(a, b) ==
    RAdd(a, RNeg(b))

RMul(a, b) ==
    IF a = NaN \/ b = NaN THEN NaN
    ELSE IF ~IsFinite(a) \/ ~IsFinite(b) THEN <<Sign(a[1]) * Sign(b[1]), 0>>
    ELSE Rat(a[1] * b[1], a[2] * b[2])

\* a / n for an integer n (true division)
RDivInt(a, n) ==
    IF a = NaN THEN NaN
    ELSE IF ~IsFinite(a) THEN (IF n < 0 THEN RNeg(a) ELSE a)
    ELSE Rat(a[1], a[2] * n)

RLe(a, b) ==
    IF IsFinite(a) /\ IsFinite(b) THEN a[1] * b[2] <= b[1] * a[2]
    ELSE IF ~IsFinite(a) THEN a[1] < 0 \/ a = b
    ELSE b[1] > 0

\* the maximum of a non-empty set of numbers; nan propagates
RMaxSet(S) ==
    IF NaN \in S THEN NaN ELSE CHOOSE m \in S : \A e \in S : RLe(e, m)

\* sum of f[0], ..., f[n - 1]
RECURSIVE RSumTo(_, _)
RSumTo(f, n) ==
    IF n = 0 THEN RInt(0) ELSE RAdd(RSumTo(f, n - 1), f[n - 1])

-----------------------------------------------------------------------------
(* Index tuples of a shape, 0-based, in row-major order.                   *)

RECURSIVE Lin(_, _)
Lin(idx, s) ==
    IF s = <<>> THEN 0
    ELSE Head(idx) * Prod(Tail(s)) + Lin(Tail(idx), Tail(s))

RECURSIVE Unlin(_, _)
Unlin(n, s) ==
    IF s = <<>> THEN <<>>
    ELSE <<n \div Prod(Tail(s))>> \o Unlin(n % Prod(Tail(s)), Tail(s))

Indices(s) ==
    {Unlin(n, s) : n \in 0..(Prod(s) - 1)}

RemoveAt(idx, i) ==
    SubSeq(idx, 1, i - 1) \o SubSeq(idx, i + 1, Len(idx))

LastN(idx, n) ==
    SubSeq(idx, Len(idx) - n + 1, Len(idx))

\* the index an operand of shape s is read at when broadcast to idx
BIdx(idx, s) ==
    LET t == LastN(idx, Len(s))
    IN  [i \in 1..Len(s) |-> IF s[i] = 1 THEN 0 ELSE t[i]]

-----------------------------------------------------------------------------
(* Tensors.                                                                *)

Raised ==
    [kind |-> "raise", shape |-> <<>>, val |-> <<"raise">>]

Sym(shape, term) ==
    IF shape = RAISE THEN Raised
    ELSE [kind |-> "sym", shape |-> shape, val |-> term]

Data(shape, f) ==
    [kind |-> "data", shape |-> shape, val |-> f]

Ok(x) ==
    x.kind # "raise"

\* the Python number 0
Zero ==
    Sym(<<>>, <<"zero">>)

\* torch.zeros(shape), as a term
Zeros(shape) ==
    Sym(shape, <<"zeros">>)

BothData(a, b) ==
    a.kind = "data" /\ b.kind = "data"

-----------------------------------------------------------------------------
(* Tensor operators of torch.  On data tensors they compute; on terms they *)
(* build the term of the result.                                           *)

\* an elementwise binary operator with broadcasting
RBinary(name, p, q) ==
    CASE name = "add" -> RAdd(p, q)
      [] name = "sub" -> RSub(p, q)
      [] name = "mul" -> RMul(p, q)

Elementwise(name, a, b) ==
    IF ~Ok(a) \/ ~Ok(b) THEN Raised
    ELSE LET s == BroadcastShape(a.shape, b.shape)
         IN  IF s = RAISE THEN Raised
             ELSE IF BothData(a, b)
             THEN Data(s, [idx \in Indices(s) |->
                             RBinary(name, a.val[BIdx(idx, a.shape)],
                                     b.val[BIdx(idx, b.shape)])])
             ELSE Sym(s, <<name, a.val, b.val>>)

Add(a, b) ==
    Elementwise("add", a, b)

Sub(a, b) ==
    Elementwise("sub", a, b)

Mul(a, b) ==
    Elementwise("mul", a, b)

Neg(x) ==
    IF ~Ok(x) THEN Raised
    ELSE IF x.kind = "data"
    THEN Data(x.shape, [idx \in Indices(x.shape) |-> RNeg(x.val[idx])])
    ELSE Sym(x.shape, <<"neg", x.val>>)

\* x / n for a Python integer n
DivScalar(x, n) ==
    IF ~Ok(x) THEN Raised
    ELSE IF x.kind = "data"
    THEN Data(x.shape, [idx \in Indices(x.shape) |-> RDivInt(x.val[idx], n)])
    ELSE Sym(x.shape, <<"div", x.val, n>>)

Unsqueeze(x, dim) ==
    IF ~Ok(x) THEN Raised
    ELSE LET s == UnsqueezeShape(x.shape, dim)
             d == UnsqueezeAt(x.shape, dim)
         IN  IF s = RAISE THEN Raised
             ELSE IF x.kind = "data"
             THEN Data(s, [idx \in Indices(s) |-> x.val[RemoveAt(idx, d + 1)]])
             ELSE Sym(s, <<"unsqueeze", dim, x.val>>)

Tile(x, reps) ==
    IF ~Ok(x) THEN Raised
    ELSE LET s == TileShape(x.shape, reps)
             n == Len(s)
             ps == PadTo(x.shape, n)
         IN  IF x.kind = "data"
             THEN Data(s, [idx \in Indices(s) |->
                             x.val[LastN([i \in 1..n |-> idx[i] % ps[i]], Len(x.shape))]])
             ELSE Sym(s, <<"tile", reps, x.val>>)

\* torch.sum(x, dim=(-2, -1))
SumLast2(x) ==
    IF ~Ok(x) THEN Raised
    ELSE LET s == SumLast2Shape(x.shape)
             r == Rank(x.shape)
         IN  IF s = RAISE THEN Raised
             ELSE IF x.kind = "data"
             THEN LET h == x.shape[r - 1]
                      w == x.shape[r]
                  IN  Data(s, [idx \in Indices(s) |->
                                 RSumTo([i \in 0..(h * w - 1) |->
                                            x.val[idx \o <<i \div w, i % w>>]], h * w)])
             ELSE Sym(s, <<"sum", <<-2, -1>>, x.val>>)

\* x.sum((2, 3))
Sum23(x) ==
    IF ~Ok(x) THEN Raised
    ELSE LET s == Reduce23Shape(x.shape)
         IN  IF s = RAISE THEN Raised
             ELSE IF x.kind = "data"
             THEN LET h == x.shape[3]
                      w == x.shape[4]
                  IN  Data(s, [idx \in Indices(s) |->
                                 RSumTo([i \in 0..(h * w - 1) |->
                                            x.val[SubSeq(idx, 1, 2) \o <<i \div w, i % w>>
                                                  \o SubSeq(idx, 3, Len(idx))]], h * w)])
             ELSE Sym(s, <<"sum", <<2, 3>>, x.val>>)

\* torch.amax(x, dim=(2, 3))
Amax23(x) ==
    IF ~Ok(x) THEN Raised
    ELSE LET s == Reduce23Shape(x.shape)
         IN  IF s = RAISE THEN Raised
             ELSE IF x.kind = "data"
             THEN Data(s, [idx \in Indices(s) |->
                             RMaxSet({x.val[SubSeq(idx, 1, 2) \o <<h, w>>
                                            \o SubSeq(idx, 3, Len(idx))] :
                                        h \in 0..(x.shape[3] - 1),
                                        w \in 0..(x.shape[4] - 1)})])
             ELSE Sym(s, <<"amax", <<2, 3>>, x.val>>)

\* the input positions along one axis (of size n) that window i covers;
\* the padding of a max pooling never wins the maximum
Window(i, n, ks, stride, padding) ==
    {p \in 0..(n - 1) : i * stride - padding <= p /\ p < i * stride - padding + ks}

\* nn.MaxPool2d(kernel_size, stride, padding).forward
MaxPool2d(x, ks, stride, padding) ==
    IF ~Ok(x) THEN Raised
    ELSE LET s == MaxPool2dShape(x.shape, ks, stride, padding)
             r == Rank(x.shape)
         IN  IF s = RAISE THEN Raised
             ELSE IF x.kind = "data"
             THEN Data(s, [idx \in Indices(s) |->
                             RMaxSet({x.val[SubSeq(idx, 1, r - 2) \o <<h, w>>] :
                                        h \in Window(idx[r - 1], x.shape[r - 1], ks, stride, padding),
                                        w \in Window(idx[r], x.shape[r], ks, stride, padding)})])
             ELSE Sym(s, <<"maxpool2d", <<ks, stride, padding>>, x.val>>)

\* torch.cat((a, b), dim)
Cat(a, b, dim) ==
    IF ~Ok(a) \/ ~Ok(b) THEN Raised
    ELSE LET d == IF dim < 0 THEN dim + Rank(a.shape) ELSE dim
             s == IF d < 0 THEN RAISE ELSE CatShape(a.shape, b.shape, d)
         IN  IF s = RAISE THEN Raised
             ELSE IF BothData(a, b)
             THEN Data(s, [idx \in Indices(s) |->
                             IF idx[d + 1] < a.shape[d + 1] THEN a.val[idx]
                             ELSE b.val[[idx EXCEPT ![d + 1] = @ - a.shape[d + 1]]]])
             ELSE Sym(s, <<"cat", dim, a.val, b.val>>)

\* x[:, :, i]
Select2(x, i) ==
    IF ~Ok(x) THEN Raised
    ELSE IF Rank(x.shape) < 3 \/ i >= x.shape[3] THEN Raised
    ELSE LET s == RemoveAt(x.shape, 3)
         IN  IF x.kind = "data"
             THEN Data(s, [idx \in Indices(s) |->
                             x.val[SubSeq(idx, 1, 2) \o <<i>> \o SubSeq(idx, 3, Len(idx))]])
             ELSE Sym(s, <<"select", 2, i, x.val>>)

\* x.view(target); one entry of target may be -1
ViewShape(s, target) ==
    LET known == Prod([i \in 1..Len(target) |-> IF target[i] = -1 THEN 1 ELSE target[i]])
        free == {i \in 1..Len(target) : target[i] = -1}
    IN  IF Cardinality(free) > 1 \/ known = 0 THEN RAISE
        ELSE IF free = {}
        THEN (IF known = Prod(s) THEN target ELSE RAISE)
        ELSE IF Prod(s) % known # 0 THEN RAISE
        ELSE [i \in 1..Len(target) |->
                 IF target[i] = -1 THEN Prod(s) \div known ELSE target[i]]

View(x, target) ==
    IF ~Ok(x) THEN Raised
    ELSE LET s == ViewShape(x.shape, target)
         IN  IF s = RAISE THEN Raised
             ELSE IF x.kind = "data"
             THEN Data(s, [idx \in Indices(s) |-> x.val[Unlin(Lin(idx, s), x.shape)]])
             ELSE Sym(s, <<"view", x.val>>)

\* torch.arange(0, n)
Arange(n) ==
    Data(<<n>>, [idx \in Indices(<<n>>) |-> RInt(idx[1])])

\* nn.Softmax(dim).forward: exp is not a rational function, the result is a
\* term whatever the input is
Softmax(x, dim) ==
    IF ~Ok(x) THEN Raised
    ELSE IF Rank(x.shape) > 0 /\ dim >= Rank(x.shape) THEN Raised
    ELSE Sym(x.shape, <<"softmax", dim, x.val>>)

-----------------------------------------------------------------------------
(* Library layers with learned parameters.  owner names the layer object.  *)

\* the mode flag (nn.Module.training) of the layers of the module called
Training ==
    args.training

Conv2d(owner, n_in, n_out, x) ==
    IF ~Ok(x) THEN Raised
    ELSE Sym(Conv2dShape(x.shape, n_in, n_out), <<"conv2d", owner, x.val>>)

BatchNorm2d(owner, n, x) ==
    IF ~Ok(x) THEN Raised
    ELSE Sym(BatchNorm2dShape(x.shape, n, Training), <<"batch_norm", owner, x.val>>)

ReLU(x) ==
    IF ~Ok(x) THEN Raised ELSE Sym(x.shape, <<"relu", x.val>>)

Upsample(x, scale) ==
    IF ~Ok(x) THEN Raised
    ELSE Sym(UpsampleShape(x.shape, scale), <<"upsample", scale, x.val>>)

Linear(owner, n_in, n_out, x) ==
    IF ~Ok(x) THEN Raised
    ELSE Sym(LinearShape(x.shape, n_in, n_out), <<"linear", owner, x.val>>)

-----------------------------------------------------------------------------
(* general_models.py                                                       *)

\* ConvBlock.forward; every ConvBlock of the repository is built with
\* padding='same' and stride 1
ConvBlock(owner, input_dim, output_dim, x) ==
    ReLU(BatchNorm2d(owner, output_dim, Conv2d(owner, input_dim, output_dim, x)))

\* SCBlock.forward
SCBlock(owner, n_in, n_out, include_batch_relu, x) ==
    LET dw == Conv2d(<<owner, "depthwise_conv">>, n_in, n_in, x)
        pw == Conv2d(<<owner, "pointwise_conv">>, n_in, n_out, dw)
    IN  IF include_batch_relu
        THEN ReLU(BatchNorm2d(<<owner, "batch_norm">>, n_out, pw))
        ELSE pw

\* SRBlock.forward
SRBlock(owner, n_in, n_out, include_batch_relu, x) ==
    LET out1 == Conv2d(<<owner, "conv">>, n_in, n_out, x)
    IN  IF n_in = n_out
        THEN LET sum == Add(x, out1)
             IN  IF include_batch_relu
                 THEN LET normed == BatchNorm2d(<<owner, "batch_norm">>, n_out, sum)
                      IN  IF Ok(normed) THEN ReLU(out1) ELSE Raised
                 ELSE sum
        ELSE LET out2 == SCBlock(<<owner, "sc">>, n_in, n_out, TRUE, x)
                 sum == Add(out1, out2)
             IN  IF include_batch_relu
                 THEN ReLU(BatchNorm2d(<<owner, "batch_norm">>, n_out, sum))
                 ELSE sum

\* spacial_softmax
spacial_softmax(x) ==
    IF ~Ok(x) \/ Rank(x.shape) < 4 THEN Raised
    ELSE LET H == x.shape[3]
             W == x.shape[4]
             x_collapsed == View(x, <<x.shape[1], x.shape[2], -1>>)
         IN  View(Softmax(x_collapsed, 2), <<-1, x.shape[2], H, W>>)

\* SoftArgMax.forward concatenating (height_out, width_out) instead
SoftArgMax_yx(x0, apply_softmax) ==
    IF ~Ok(x0) THEN Raised
    ELSE LET dim1 == Rank(x0.shape) = 3
             x == IF dim1 THEN Unsqueeze(x0, -1) ELSE x0
         IN  IF Rank(x.shape) < 4 THEN Raised
             ELSE LET H == x.shape[3]
                      W == x.shape[4]
                      x_prob == IF apply_softmax THEN spacial_softmax(x) ELSE x
                      height_values == Unsqueeze(Arange(H), 1)
                      width_values == Unsqueeze(Arange(W), 0)
                      height_tensor == DivScalar(Tile(height_values, <<1, W>>), H - 1)
                      width_tensor == DivScalar(Tile(width_values, <<H, 1>>), W - 1)
                      height_out == Sum23(Mul(x_prob, height_tensor))
                      width_out == Sum23(Mul(x_prob, width_tensor))
                      res == Cat(Unsqueeze(height_out, -1), Unsqueeze(width_out, -1), -1)
                  IN  IF dim1 THEN Unsqueeze(Select2(res, 1), -1) ELSE res

\* SoftArgMax.forward (its call of nn.Module.__init__ only resets the
\* module's empty bookkeeping)
SoftArgMax(x0, apply_softmax) ==
    IF ~Ok(x0) THEN Raised
    ELSE LET dim1 == Rank(x0.shape) = 3
             x == IF dim1 THEN Unsqueeze(x0, -1) ELSE x0
         IN  IF Rank(x.shape) < 4 THEN Raised
             ELSE LET H == x.shape[3]
                      W == x.shape[4]
                      x_prob == IF apply_softmax THEN spacial_softmax(x) ELSE x
                      height_values == Unsqueeze(Arange(H), 1)
                      width_values == Unsqueeze(Arange(W), 0)
                      height_tensor == DivScalar(Tile(height_values, <<1, W>>), H - 1)
                      width_tensor == DivScalar(Tile(width_values, <<H, 1>>), W - 1)
                      height_out == Sum23(Mul(x_prob, height_tensor))
                      width_out == Sum23(Mul(x_prob, width_tensor))
                      res == Cat(Unsqueeze(width_out, -1), Unsqueeze(height_out, -1), -1)
                  IN  IF dim1 THEN Unsqueeze(Select2(res, 1), -1) ELSE res

\* MaxPlusMinPooling.forward without the negation of the second pooling's input
MaxPlusMinPooling_noneg(kernel_size, stride, padding, x) ==
    Sub(MaxPool2d(x, kernel_size, stride, padding),
        MaxPool2d(x, kernel_size, stride, padding))

\* MaxPlusMinPooling.forward
MaxPlusMinPooling(kernel_size, stride, padding, x) ==
    Sub(MaxPool2d(x, kernel_size, stride, padding),
        MaxPool2d(Neg(x), kernel_size, stride, padding))

\* GlobalMaxPlusMinPooling.forward
GlobalMaxPlusMinPooling(x) ==
    LET max_pool == Amax23(x)
        min_pool == Amax23(Neg(x))
    IN  Sub(max_pool, min_pool)

\* kronecker_prod with the two unsqueezed axes exchanged
kronecker_prod_swapped(a, b) ==
    IF ~Ok(a) \/ ~Ok(b) \/ Rank(a.shape) < 3 \/ Rank(b.shape) < 3 THEN Raised
    ELSE LET C1 == a.shape[Rank(a.shape) - 2]
             C2 == b.shape[Rank(b.shape) - 2]
             a1 == Unsqueeze(a, -4)
             b1 == Unsqueeze(b, -3)
             a2 == Tile(a1, <<1, C2, 1, 1, 1>>)
             b2 == Tile(b1, <<1, 1, C1, 1, 1>>)
         IN  Mul(a2, b2)

\* kronecker_prod
kronecker_prod(a, b) ==
    IF ~Ok(a) \/ ~Ok(b) \/ Rank(a.shape) < 3 \/ Rank(b.shape) < 3 THEN Raised
    ELSE LET C1 == a.shape[Rank(a.shape) - 2]
             C2 == b.shape[Rank(b.shape) - 2]
             a1 == Unsqueeze(a, -3)
             b1 == Unsqueeze(b, -4)
             a2 == Tile(a1, <<1, 1, C2, 1, 1>>)
             b2 == Tile(b1, <<1, C1, 1, 1, 1>>)
         IN  Mul(a2, b2)

-----------------------------------------------------------------------------
(* action_recognition.py                                                   *)

\* ActionStart.forward
ActionStart(owner, pose_rec, x) ==
    LET dim == IF pose_rec THEN 3 ELSE 576
        f == IF pose_rec THEN 1 ELSE 2
        out_left == ConvBlock(<<owner, "conv_left1">>, dim, 6 * f, x)
        out_middle == ConvBlock(<<owner, "conv_middle1">>, dim, 12 * f, x)
        out_right == ConvBlock(<<owner, "conv_right1">>, dim, 18 * f, x)
        cat1 == Cat(Cat(out_left, out_middle, 1), out_right, 1)
        out_left1 == ConvBlock(<<owner, "conv_left2">>, 36 * f, 56 * f, cat1)
        out_right1 == ConvBlock(<<owner, "conv_right2", 1>>, 32 * f, 56 * f,
                                ConvBlock(<<owner, "conv_right2", 0>>, 36 * f, 32 * f, cat1))
        out1 == Cat(out_left1, out_right1, 1)
    IN  MaxPlusMinPooling(2, 2, 0, out1)

\* The value t of a call of the module owner on the argument x: in t.val the
\* leaf <<"arg", owner>> abbreviates x.val, which is written out once.
Where(t, owner, x) ==
    IF ~Ok(t) \/ ~Ok(x) THEN Raised
    ELSE Sym(t.shape, <<"where", owner, x.val, t.val>>)

Arg(owner, x) ==
    IF ~Ok(x) THEN Raised ELSE Sym(x.shape, <<"arg", owner>>)

\* ActionBlock.forward: the pair (actions, out), or a raise
ActionBlock(owner, pose_rec, N_a, x0) ==
    LET dim == IF pose_rec THEN 112 ELSE 224
        x == Arg(owner, x0)
        c2 == ConvBlock(<<owner, "conv2">>, dim \div 2, dim,
                        ConvBlock(<<owner, "conv1">>, dim, dim \div 2, x))
        o == Add(x, c2)
        out1 == ConvBlock(<<owner, "conv3">>, dim, dim, o)
        pooled == MaxPlusMinPooling(2, 2, 0, out1)
        heatmaps == ConvBlock(<<owner, "conv4">>, dim, N_a, pooled)
        up == Upsample(heatmaps, 2)
        c5 == ConvBlock(<<owner, "conv5">>, N_a, dim, up)
        out2 == Add(c5, out1)
        res == Add(o, out2)
        pooled_maps == GlobalMaxPlusMinPooling(heatmaps)
        actions == Softmax(pooled_maps, SoftmaxDim(Rank(pooled_maps.shape)))
    IN  IF Ok(res) /\ Ok(actions)
        THEN [actions |-> Where(actions, owner, x0), out |-> Where(res, owner, x0)]
        ELSE [actions |-> Raised, out |-> Raised]

\* all_actions[k] = actions: the row after the assignment, or a raise
SetRow(row, actions) ==
    IF ~Ok(actions) \/ ~AssignableTo(actions.shape, row.shape) THEN Raised
    ELSE Sym(row.shape, actions.val)

\* appearance_extract
appearance_extract(entry_input, prob_maps) ==
    SumLast2(kronecker_prod(entry_input, prob_maps))

-----------------------------------------------------------------------------
(* Inputs.                                                                 *)

\* entry n of the data tensor generated from a seed: a value in -3 .. 3
GenVal(seed, n) ==
    (((seed + 2) * (n + 1) * (n + 3) + seed) % 7) - 3

GenTensor(shape, seed) ==
    Data(shape, [idx \in Indices(shape) |-> RInt(GenVal(seed, Lin(idx, shape)))])

\* a tensor standing for an arbitrary input of the given shape
Input(name, shape) ==
    Sym(shape, <<name>>)

\* the variables of ActionCombined.forward and ActionRecognition.forward
\* while neither runs
NoLoop ==
    /\ k = 0
    /\ out = Zero
    /\ prev_out = Zero
    /\ all_actions = <<>>
    /\ calls = <<>>
    /\ frame = <<>>

LoopUnchanged ==
    UNCHANGED <<k, out, prev_out, all_actions, calls, frame>>

\* the call returns r, or raises
Return(r) ==
    /\ ret' = r
    /\ pc' = IF Ok(r) THEN "done" ELSE "raised"
    /\ UNCHANGED <<fn, args>>

Finished ==
    pc \in {"done", "raised"}

-----------------------------------------------------------------------------
(* kronecker_prod and appearance_extract on data tensors.                  *)

KronShapes ==
    {[a |-> <<n, c1, h, w>>, b |-> <<n, c2, h, w>>] :
        n \in 1..MaxDim, c1 \in 1..MaxDim, c2 \in 1..MaxDim,
        h \in 1..MaxDim, w \in 1..MaxDim}
    \cup {[a |-> <<c1, h, w>>, b |-> <<c2, h, w>>] :
            c1 \in 1..MaxDim, c2 \in 1..MaxDim, h \in 1..MaxDim, w \in 1..MaxDim}
    \cup {[a |-> <<h, w>>, b |-> <<h, w>>] : h \in 1..MaxDim, w \in 1..MaxDim}

InitKron ==
    /\ pc = "call"
    /\ fn \in {"kronecker_prod", "appearance_extract"}
    /\ \E sh \in KronShapes, seed \in 0..MaxSeed :
          args = [a |-> GenTensor(sh.a, seed), b |-> GenTensor(sh.b, seed + 1),
                  training |-> FALSE]
    /\ ret = Zero
    /\ NoLoop

CallKroneckerProd ==
    /\ pc = "call"
    /\ fn = "kronecker_prod"
    /\ Return(kronecker_prod(args.a, args.b))
    /\ LoopUnchanged

CallAppearanceExtract ==
    /\ pc = "call"
    /\ fn = "appearance_extract"
    /\ Return(appearance_extract(args.a, args.b))
    /\ LoopUnchanged

NextKron ==
    \/ CallKroneckerProd
    \/ CallAppearanceExtract

SpecKron ==
    InitKron /\ [][NextKron]_vars

\* C5: for a of shape N x C1 x H x W and b of shape N x C2 x H x W,
\* kronecker_prod(a, b) returns a tensor of shape N x C1 x C2 x H x W with
\* result[n, i, j, h, w] = a[n, i, h, w] * b[n, j, h, w].
C5_KroneckerByChannel ==
    (fn = "kronecker_prod" /\ Finished /\ Rank(args.a.shape) = 4) =>
        LET a == args.a
            b == args.b
            N == a.shape[1]
            C1 == a.shape[2]
            C2 == b.shape[2]
            H == a.shape[3]
            W == a.shape[4]
        IN  /\ pc = "done"
            /\ ret.shape = <<N, C1, C2, H, W>>
            /\ \A n \in 0..(N - 1), i \in 0..(C1 - 1), j \in 0..(C2 - 1),
                  h \in 0..(H - 1), w \in 0..(W - 1) :
                  ret.val[<<n, i, j, h, w>>]
                      = RMul(a.val[<<n, i, h, w>>], b.val[<<n, j, h, w>>])

\* C5 witness: a product of a 2 x 1 x 2 x 2 and a 2 x 2 x 2 x 2 tensor was
\* returned, with a non-zero entry at a position where i # j.
C5_Witness ==
    /\ fn = "kronecker_prod"
    /\ pc = "done"
    /\ args.a.shape = <<2, 1, 2, 2>>
    /\ args.b.shape = <<2, 2, 2, 2>>
    /\ ret.val[<<1, 0, 1, 1, 0>>] # RInt(0)

\* C4 (as claimed): appearance_extract returns a tensor laid out N_f x T x N_J
\* whose entry [f, t, j] is the sum over h, w of
\* entry_input[t, f, h, w] * prob_maps[t, j, h, w].
C4_AppearanceLayout ==
    (fn = "appearance_extract" /\ Finished /\ Rank(args.a.shape) = 4) =>
        LET entry_input == args.a
            prob_maps == args.b
            T == entry_input.shape[1]
            N_f == entry_input.shape[2]
            N_J == prob_maps.shape[2]
            H == entry_input.shape[3]
            W == entry_input.shape[4]
        IN  /\ pc = "done"
            /\ ret.shape = <<N_f, T, N_J>>
            /\ \A f \in 0..(N_f - 1), t \in 0..(T - 1), j \in 0..(N_J - 1) :
                  ret.val[<<f, t, j>>]
                      = RSumTo([i \in 0..(H * W - 1) |->
                                   RMul(entry_input.val[<<t, f, i \div W, i % W>>],
                                        prob_maps.val[<<t, j, i \div W, i % W>>])],
                               H * W)

-----------------------------------------------------------------------------
(* The poolings on data tensors.                                           *)

InitPool ==
    /\ pc = "call"
    /\ \E n \in 1..MaxPoolBatch, c \in 1..MaxChan, h \in 1..MaxHW, w \in 1..MaxHW,
          seed \in 0..MaxSeed :
          \/ /\ fn = "MaxPlusMinPooling"
             /\ \E ks \in 1..MaxKernel, st \in 1..MaxStride, pd \in 0..MaxPad :
                   args = [kernel_size |-> ks, stride |-> st, padding |-> pd,
                           x |-> GenTensor(<<n, c, h, w>>, seed), training |-> FALSE]
          \/ /\ fn = "GlobalMaxPlusMinPooling"
             /\ args = [x |-> GenTensor(<<n, c, h, w>>, seed), training |-> FALSE]
          \/ /\ fn = "GlobalMaxPlusMinPooling"
             /\ args = [x |-> GenTensor(<<c, h, w>>, seed), training |-> FALSE]
    /\ ret = Zero
    /\ NoLoop

CallMaxPlusMinPooling ==
    /\ pc = "call"
    /\ fn = "MaxPlusMinPooling"
    /\ Return(MaxPlusMinPooling(args.kernel_size, args.stride, args.padding, args.x))
    /\ LoopUnchanged

CallGlobalMaxPlusMinPooling ==
    /\ pc = "call"
    /\ fn = "GlobalMaxPlusMinPooling"
    /\ Return(GlobalMaxPlusMinPooling(args.x))
    /\ LoopUnchanged

NextPool ==
    \/ CallMaxPlusMinPooling
    \/ CallGlobalMaxPlusMinPooling

SpecPool ==
    InitPool /\ [][NextPool]_vars

\* the integer entries of x at [n, c, h, w] for h in hs and w in ws
Entries(x, n, c, hs, ws) ==
    {x.val[<<n, c, h, w>>][1] : h \in hs, w \in ws}

\* C6: with padding 0, MaxPlusMinPooling(k, s) gives at every output position
\* (i, j) of every channel max(window) + min(window) for the k x k window that
\* starts at (i*s, j*s), the output being floor((H-k)/s)+1 high and
\* floor((W-k)/s)+1 wide; GlobalMaxPlusMinPooling gives, for every batch item
\* and channel, the maximum plus the minimum of the whole H x W map.
C6_MaxPlusMin ==
    /\ (/\ fn = "MaxPlusMinPooling"
        /\ Finished
        /\ args.padding = 0
        /\ args.x.shape[3] >= args.kernel_size
        /\ args.x.shape[4] >= args.kernel_size) =>
            LET x == args.x
                ks == args.kernel_size
                st == args.stride
                OH == ((x.shape[3] - ks) \div st) + 1
                OW == ((x.shape[4] - ks) \div st) + 1
            IN  /\ pc = "done"
                /\ ret.shape = <<x.shape[1], x.shape[2], OH, OW>>
                /\ \A n \in 0..(x.shape[1] - 1), c \in 0..(x.shape[2] - 1),
                      i \in 0..(OH - 1), j \in 0..(OW - 1) :
                      LET win == Entries(x, n, c, (i * st)..(i * st + ks - 1),
                                         (j * st)..(j * st + ks - 1))
                      IN  ret.val[<<n, c, i, j>>] = RInt(SetMax(win) + SetMin(win))
    /\ (fn = "GlobalMaxPlusMinPooling" /\ Finished /\ Rank(args.x.shape) = 4) =>
            LET x == args.x
            IN  /\ pc = "done"
                /\ ret.shape = <<x.shape[1], x.shape[2]>>
                /\ \A n \in 0..(x.shape[1] - 1), c \in 0..(x.shape[2] - 1) :
                      LET all == Entries(x, n, c, 0..(x.shape[3] - 1),
                                         0..(x.shape[4] - 1))
                      IN  ret.val[<<n, c>>] = RInt(SetMax(all) + SetMin(all))

\* C6 witness: a 2 x 2 pooling with stride 2 of a 4 x 4 map returned a 2 x 2
\* map, and one of its windows holds different values (max # min).
C6_Witness ==
    /\ fn = "MaxPlusMinPooling"
    /\ pc = "done"
    /\ args.kernel_size = 2 /\ args.stride = 2 /\ args.padding = 0
    /\ args.x.shape[3] = 4 /\ args.x.shape[4] = 4
    /\ ret.shape[3] = 2 /\ ret.shape[4] = 2
    /\ LET win == Entries(args.x, 0, 0, 2..3, 2..3)
       IN  SetMax(win) # SetMin(win) /\ SetMax(win) + SetMin(win) # 0

-----------------------------------------------------------------------------
(* SoftArgMax on data tensors.                                             *)

RECURSIVE ISumTo(_, _)
ISumTo(f, n) ==
    IF n = 0 THEN 0 ELSE ISumTo(f, n - 1) + f[n - 1]

\* the spatial part of a B x C x ... shape, and the cell number of an index
Spatial(shape) ==
    SubSeq(shape, 3, Len(shape))

Cell(idx, shape) ==
    Lin(Spatial(idx), Spatial(shape))

\* probability maps with all the mass of map (b, c) on one cell
OneHotMaps(shape, pos) ==
    Data(shape, [idx \in Indices(shape) |->
                    IF Cell(idx, shape) = (pos + idx[1] + idx[2]) % Prod(Spatial(shape))
                    THEN RInt(1) ELSE RInt(0)])

\* probability maps: non-negative weights divided by their sum over the map
Weight(seed, idx, shape) ==
    GenVal(seed, Lin(idx, shape)) + 3

MapTotal(seed, idx, shape) ==
    LET cells == Prod(Spatial(shape))
    IN  ISumTo([i \in 0..(cells - 1) |->
                   Weight(seed, SubSeq(idx, 1, 2) \o Unlin(i, Spatial(shape)), shape)],
               cells)

DistMaps(shape, seed) ==
    Data(shape, [idx \in Indices(shape) |->
                    IF MapTotal(seed, idx, shape) = 0
                    THEN (IF Cell(idx, shape) = 0 THEN RInt(1) ELSE RInt(0))
                    ELSE Rat(Weight(seed, idx, shape), MapTotal(seed, idx, shape))])

SoftArgMaxShapes ==
    {<<b, c, h, w>> : b \in 1..MaxDim, c \in 1..MaxDim, h \in 1..MaxSide, w \in 1..MaxSide}
    \cup {<<b, c, l>> : b \in 1..MaxDim, c \in 1..MaxDim, l \in 1..MaxSide}
    \cup {<<b, c>> : b \in 1..MaxDim, c \in 1..MaxDim}

InitSoftArgMax ==
    /\ pc = "call"
    /\ fn = "SoftArgMax"
    /\ \E sh \in SoftArgMaxShapes :
          \/ \E seed \in 0..MaxSeed :
                args = [x |-> GenTensor(sh, seed), apply_softmax |-> TRUE,
                        training |-> FALSE]
          \/ \E seed \in 0..MaxSeed :
                args = [x |-> DistMaps(sh, seed), apply_softmax |-> FALSE,
                        training |-> FALSE]
          \/ \E pos \in 0..(Prod(Spatial(sh)) - 1) :
                args = [x |-> OneHotMaps(sh, pos), apply_softmax |-> FALSE,
                        training |-> FALSE]
    /\ ret = Zero
    /\ NoLoop

CallSoftArgMax ==
    /\ pc = "call"
    /\ fn = "SoftArgMax"
    /\ Return(SoftArgMax(args.x, args.apply_softmax))
    /\ LoopUnchanged

NextSoftArgMax ==
    CallSoftArgMax

SpecSoftArgMax ==
    InitSoftArgMax /\ [][NextSoftArgMax]_vars

\* the expectation of coordinate number axis (1 = h, 2 = w) of map (b, c) of
\* the B x C x H x W tensor p, divided by (size - 1)
Expected(p, b, c, axis) ==
    LET H == p.shape[3]
        W == p.shape[4]
    IN  RDivInt(RSumTo([i \in 0..(H * W - 1) |->
                           RMul(p.val[<<b, c, i \div W, i % W>>],
                                RInt(<<i \div W, i % W>>[axis]))], H * W),
                p.shape[2 + axis] - 1)

-----------------------------------------------------------------------------
(* SCBlock and SRBlock.                                                    *)

InitSR ==
    /\ pc = "call"
    /\ fn \in {"SRBlock", "SCBlock"}
    /\ \E n_in \in 1..MaxChan, n_out \in 1..MaxChan, s \in {1, 3},
          include_batch_relu \in BOOLEAN, training \in BOOLEAN,
          b \in 1..MaxBatch, c \in 1..MaxChan, h \in 1..MaxDim, w \in 1..MaxDim :
          args = [n_in |-> n_in, n_out |-> n_out, s |-> s,
                  include_batch_relu |-> include_batch_relu,
                  training |-> training, x |-> Input("x", <<b, c, h, w>>)]
    /\ ret = Zero
    /\ NoLoop

CallSCBlock ==
    /\ pc = "call"
    /\ fn = "SCBlock"
    /\ Return(SCBlock(<<"self">>, args.n_in, args.n_out, args.include_batch_relu, args.x))
    /\ LoopUnchanged

CallSRBlock ==
    /\ pc = "call"
    /\ fn = "SRBlock"
    /\ Return(SRBlock(<<"self">>, args.n_in, args.n_out, args.include_batch_relu, args.x))
    /\ LoopUnchanged

NextSR ==
    \/ CallSCBlock
    \/ CallSRBlock

SpecSR ==
    InitSR /\ [][NextSR]_vars

\* C8 (as claimed): in both branches of SRBlock.forward, with
\* include_batch_relu the returned tensor is relu(batch_norm(s)) for the
\* residual sum s of the branch (x + conv(x) when n_in = n_out, conv(x) + sc(x)
\* otherwise), and without it the returned tensor is s.
C8_SRBlockBatchRelu ==
    (fn = "SRBlock" /\ pc = "done") =>
        LET x == args.x
            conv == Conv2d(<<<<"self">>, "conv">>, args.n_in, args.n_out, x)
            s == IF args.n_in = args.n_out
                 THEN Add(x, conv)
                 ELSE Add(conv, SCBlock(<<<<"self">>, "sc">>, args.n_in, args.n_out, TRUE, x))
        IN  ret = IF args.include_batch_relu
                  THEN ReLU(BatchNorm2d(<<<<"self">>, "batch_norm">>, args.n_out, s))
                  ELSE s

-----------------------------------------------------------------------------
(* ActionStart and ActionBlock, called on their own.                       *)

InitBlock ==
    /\ pc = "call"
    /\ fn \in {"ActionStart", "ActionBlock"}
    /\ \E pose_rec \in BOOLEAN, N_a \in 1..MaxActions, training \in BOOLEAN,
          B \in 1..MaxBatch, N_f \in {3, 112, 224, 576},
          T \in 1..MaxFrames, N_J \in 1..MaxJoints :
          args = [pose_rec |-> pose_rec, N_a |-> N_a, training |-> training,
                  x |-> Input("x", <<B, N_f, T, N_J>>)]
    /\ ret = Zero
    /\ NoLoop

CallActionStart ==
    /\ pc = "call"
    /\ fn = "ActionStart"
    /\ Return(ActionStart(<<"self">>, args.pose_rec, args.x))
    /\ LoopUnchanged

CallActionBlock ==
    /\ pc = "call"
    /\ fn = "ActionBlock"
    /\ LET r == ActionBlock(<<"self">>, args.pose_rec, args.N_a, args.x)
       IN  /\ ret' = r
           /\ pc' = IF Ok(r.out) THEN "done" ELSE "raised"
    /\ UNCHANGED <<fn, args>>
    /\ LoopUnchanged

NextBlock ==
    \/ CallActionStart
    \/ CallActionBlock

SpecBlock ==
    InitBlock /\ [][NextBlock]_vars

\* C3 (as claimed): for an input of shape B x N_f x T x N_J, ActionBlock.forward
\* returns (actions, out) with actions the softmax of the globally pooled heat
\* maps, of shape B x N_a, and out of shape B x 224 x T/2 x N_J/2.
C3_ActionBlockShapes ==
    (fn = "ActionBlock" /\ pc = "done") =>
        LET B == args.x.shape[1]
            T == args.x.shape[3]
            N_J == args.x.shape[4]
        IN  /\ ret.actions.shape = <<B, args.N_a>>
            /\ ret.actions.val[4][1] = "softmax"
            /\ ret.actions.val[4][3][1] = "sub"
            /\ ret.actions.val[4][3][2][1] = "amax"
            /\ ret.out.shape = <<B, 224, T \div 2, N_J \div 2>>

-----------------------------------------------------------------------------
(* ActionCombined.forward, step by step, called on its own or as the       *)
(* pose_rec and then the action_rec branch of ActionRecognition.forward.   *)

FrameCounts ==
    {4, 6, 8}

JointCounts ==
    {4, 8}

\* the ActionCombined object whose forward runs
Branch ==
    IF fn = "ActionCombined" THEN "self" ELSE frame.branch

CurPoseRec ==
    IF fn = "ActionCombined" THEN args.pose_rec ELSE frame.branch = "pose_rec"

CurInput ==
    IF fn = "ActionCombined" THEN args.x
    ELSE IF frame.branch = "pose_rec" THEN args.pose_input
    ELSE frame.appearance_input

\* prev_out = out, with new_out the block's feature output, as a bug would
\* have it
NextPrevOut_new(cur_out, new_out) ==
    new_out

\* line 114: prev_out = out
NextPrevOut(cur_out, new_out) ==
    cur_out

\* rows[0]
LastRow_first(rows) ==
    rows[1]

\* line 149: rows[-1]
LastRow(rows) ==
    rows[Len(rows)]

InitAction ==
    /\ ret = Zero
    /\ NoLoop
    /\ \E N_a \in 1..MaxActions, K \in 1..MaxK, training \in BOOLEAN,
          B \in 1..MaxBatch, T \in FrameCounts, N_J \in JointCounts :
          \/ /\ fn = "ActionCombined"
             /\ pc = "start"
             /\ \E pose_rec \in BOOLEAN, N_f \in {3, 576} :
                   args = [pose_rec |-> pose_rec, N_a |-> N_a, K |-> K,
                           training |-> training,
                           x |-> Input("x", <<B, N_f, T, N_J>>)]
          \/ /\ fn = "ActionRecognition"
             /\ pc = "call"
             /\ \E T_e \in {T, 576}, lead \in {<<>>, <<B>>} :
                   args = [N_a |-> N_a, K |-> K, training |-> training,
                           pose_input |-> Input("pose_input", <<B, 3, T, N_J>>),
                           entry_input |->
                               Input("entry_input", lead \o <<T_e, 576, 2, 2>>),
                           prob_maps |->
                               Input("prob_maps", lead \o <<T_e, N_J, 2, 2>>)]

\* ActionRecognition.forward, line 146, and the call of self.pose_rec
RecognitionExtract ==
    /\ pc = "call"
    /\ fn = "ActionRecognition"
    /\ LET appearance_input == appearance_extract(args.entry_input, args.prob_maps)
       IN  /\ frame' = [branch |-> "pose_rec", appearance_input |-> appearance_input,
                        pose_actions |-> <<>>, pose_out |-> Zero, fc_input |-> Zero]
           /\ pc' = IF Ok(appearance_input) THEN "start" ELSE "raised"
    /\ UNCHANGED <<fn, args, ret, k, out, prev_out, all_actions, calls>>

\* ActionCombined.forward, lines 108-111
EnterCombined ==
    /\ pc = "start"
    /\ all_actions' = [i \in 1..args.K |-> Zeros(<<args.N_a>>)]
    /\ out' = ActionStart(<<Branch, "action_start">>, CurPoseRec, CurInput)
    /\ prev_out' = Zero
    /\ k' = 0
    /\ calls' = <<>>
    /\ pc' = IF Ok(out') THEN "loop" ELSE "raised"
    /\ UNCHANGED <<fn, args, ret, frame>>

\* ActionCombined.forward, lines 112-116: one iteration of the loop
LoopIteration ==
    /\ pc = "loop"
    /\ k < args.K
    /\ LET input == Add(out, prev_out)
           r == ActionBlock(<<Branch, "action_blocks", k>>, CurPoseRec, args.N_a, input)
           row == SetRow(all_actions[k + 1], r.actions)
       IN  /\ calls' = Append(calls, [block |-> k, input |-> input,
                                      actions |-> r.actions, out |-> r.out])
           /\ IF ~Ok(r.out)
              THEN /\ pc' = "raised"
                   /\ UNCHANGED <<k, out, prev_out, all_actions>>
              ELSE /\ prev_out' = NextPrevOut(out, r.out)
                   /\ out' = r.out
                   /\ IF Ok(row)
                      THEN /\ all_actions' = [all_actions EXCEPT ![k + 1] = row]
                           /\ k' = k + 1
                           /\ pc' = "loop"
                      ELSE /\ pc' = "raised"
                           /\ UNCHANGED <<k, all_actions>>
    /\ UNCHANGED <<fn, args, ret, frame>>

\* ActionCombined.forward, line 117, called on its own
CombinedReturn ==
    /\ pc = "loop"
    /\ k = args.K
    /\ fn = "ActionCombined"
    /\ ret' = [all_actions |-> all_actions, out |-> out]
    /\ pc' = "done"
    /\ UNCHANGED <<fn, args, k, out, prev_out, all_actions, calls, frame>>

\* ActionRecognition.forward, lines 147-148: self.pose_rec returned, call of
\* self.action_rec
PoseBranchReturn ==
    /\ pc = "loop"
    /\ k = args.K
    /\ fn = "ActionRecognition"
    /\ frame.branch = "pose_rec"
    /\ frame' = [frame EXCEPT !.branch = "action_rec",
                              !.pose_actions = all_actions,
                              !.pose_out = out]
    /\ pc' = "start"
    /\ UNCHANGED <<fn, args, ret, k, out, prev_out, all_actions, calls>>

\* ActionRecognition.forward, lines 148-151: self.action_rec returned
RecognitionFinish ==
    /\ pc = "loop"
    /\ k = args.K
    /\ fn = "ActionRecognition"
    /\ frame.branch = "action_rec"
    /\ LET appearance_actions == all_actions
           fc_input == Cat(LastRow(frame.pose_actions), LastRow(appearance_actions), 0)
           fc == Linear(<<"self", "fc">>, 2 * args.N_a, args.N_a, fc_input)
           res == Softmax(fc, SoftmaxDim(Rank(fc.shape)))
       IN  /\ frame' = [frame EXCEPT !.fc_input = fc_input]
           /\ ret' = res
           /\ pc' = IF Ok(res) THEN "done" ELSE "raised"
    /\ UNCHANGED <<fn, args, k, out, prev_out, all_actions, calls>>

NextAction ==
    \/ RecognitionExtract
    \/ EnterCombined
    \/ LoopIteration
    \/ CombinedReturn
    \/ PoseBranchReturn
    \/ RecognitionFinish

SpecAction ==
    InitAction /\ [][NextAction]_vars

\* the argument terms of a term
Children(t) ==
    CASE t[1] \in {"add", "sub", "mul"} -> <<t[2], t[3]>>
      [] t[1] \in {"cat", "where"} -> <<t[3], t[4]>>
      [] t[1] = "select" -> <<t[4]>>
      [] t[1] \in {"relu", "neg", "view", "div"} -> <<t[2]>>
      [] t[1] \in {"conv2d", "batch_norm", "linear", "softmax", "upsample",
                   "maxpool2d", "sum", "amax", "unsqueeze", "tile"} -> <<t[3]>>
      [] OTHER -> <<>>

\* term sub is t or occurs in t
RECURSIVE Occurs(_, _)
Occurs(sub, t) ==
    \/ t = sub
    \/ \E i \in 1..Len(Children(t)) : Occurs(sub, Children(t)[i])

\* feature output number j of the running ActionCombined.forward: of
\* action_start for j = -1, of block j for j >= 0; the initial prev_out for -2
FeatureOut(j) ==
    IF j = -2 THEN Zero
    ELSE IF j = -1 THEN ActionStart(<<Branch, "action_start">>, CurPoseRec, CurInput)
    ELSE calls[j + 1].out

\* C9: in ActionCombined.forward the blocks run in index order 0, 1, ..., K-1,
\* each once; block 0 receives O(-1) + 0 and block j >= 1 receives
\* O(j-1) + O(j-2), O(-1) being the ActionStart output and O(j) the feature
\* output of block j; after k iterations out = O(k-1) and prev_out = O(k-2)
\* (the outputs of the last block run and of the one before it).
C9_LoopOrder ==
    pc \in {"loop", "done", "raised"} =>
        /\ Len(calls) <= args.K
        /\ \A i \in 1..Len(calls) :
              /\ calls[i].block = i - 1
              /\ calls[i].input = Add(FeatureOut(i - 2), FeatureOut(i - 3))
        /\ pc = "loop" =>
              /\ Len(calls) = k
              /\ out = FeatureOut(k - 1)
              /\ prev_out = FeatureOut(k - 2)
        /\ pc = "done" => Len(calls) = args.K

\* C9 witness: three iterations are done; block 2 received the sum of the
\* outputs of blocks 1 and 0.
C9_Witness ==
    /\ pc = "loop"
    /\ k = 3
    /\ Len(calls) = 3
    /\ calls[3].input.val = <<"add", calls[2].out.val, calls[1].out.val>>
    /\ calls[2].out.val # calls[1].out.val

\* C2: ActionRecognition.forward feeds fc the concatenation of row K-1 of the
\* pose branch's all_actions and row K-1 of the appearance branch's, of length
\* 2*N_a; it returns a vector of length N_a; the rows of blocks 0..K-2 of
\* either branch occur nowhere in the output.
C2_LastBlockOnly ==
    (fn = "ActionRecognition" /\ pc = "done") =>
        LET K == args.K
            pose_actions == frame.pose_actions
            appearance_actions == all_actions
        IN  /\ Len(pose_actions) = K
            /\ Len(appearance_actions) = K
            /\ frame.fc_input.shape = <<2 * args.N_a>>
            /\ frame.fc_input.val
                   = <<"cat", 0, pose_actions[K].val, appearance_actions[K].val>>
            /\ appearance_actions[K].val = calls[K].actions.val
            /\ ret.shape = <<args.N_a>>
            /\ ret.val = <<"softmax", 0, <<"linear", <<"self", "fc">>, frame.fc_input.val>>>>
            /\ \A i \in 1..(K - 1) :
                  /\ ~Occurs(pose_actions[i].val, ret.val)
                  /\ ~Occurs(appearance_actions[i].val, ret.val)

\* C2 witness: ActionRecognition.forward returned with K >= 2 blocks per branch.
C2_Witness ==
    /\ fn = "ActionRecognition"
    /\ pc = "done"
    /\ args.K >= 2
    /\ frame.pose_actions[1].val # frame.pose_actions[args.K].val

\* the input is a batch of shape B x N_f x T x N_J that every layer accepts:
\* N_f is the channel count of the branch, T and N_J are halved twice without
\* remainder, and in training mode every batch norm sees more than one value
\* per channel
WellShapedInput ==
    LET sh == args.x.shape
    IN  /\ sh[2] = (IF args.pose_rec THEN 3 ELSE 576)
        /\ sh[3] % 4 = 0
        /\ sh[4] % 4 = 0
        /\ args.training => sh[1] * (sh[3] \div 4) * (sh[4] \div 4) > 1

\* C1 (as claimed): for an input batch of shape B x N_f x T x N_J and K >= 1
\* blocks, ActionCombined.forward returns (all_actions, out), all_actions of
\* shape K x N_a with row k the action vector returned by block k (no row left
\* zero, none holding another block's actions), out the features of the last
\* block.
C1_RowsAreBlockActions ==
    (fn = "ActionCombined" /\ Finished /\ WellShapedInput) =>
        /\ pc = "done"
        /\ Len(ret.all_actions) = args.K
        /\ \A i \in 1..args.K :
              /\ ret.all_actions[i].shape = <<args.N_a>>
              /\ calls[i].block = i - 1
              /\ ret.all_actions[i].val = calls[i].actions.val
              /\ ret.all_actions[i].val # <<"zeros">>
              /\ \A j \in 1..args.K :
                    j # i => ret.all_actions[i].val # calls[j].actions.val
        /\ ret.out = calls[args.K].out

\* what C1 claims does hold for a batch of one
C1_SingleItemBatch ==
    (fn = "ActionCombined" /\ args.x.shape[1] = 1) => C1_RowsAreBlockActions

=============================================================================
